---- MODULE Spec2Model ----
(***************************************************************************)
(* A model of dam.js, the Downloadable Asset Manager: the bundle registry, *)
(* the deferred event queue, the task list with its drain loop, the Load   *)
(* and Remove task bodies, and init.  One action is one JavaScript turn    *)
(* (a client call, a timer, or one callback of the filesystem or of the    *)
(* transport); a flush of the event queue is one turn too, split at each   *)
(* listener invocation so that a listener can call back into the DAM.      *)
(***************************************************************************)
EXTENDS Integers, Sequences, FiniteSets, TLC

VARIABLES
  phase,          \* "new" | "fs" | "dir" | "check" | "ready" | "failed": progress of init
  initRun,        \* the closure of init's status check: names, index, file index
  bundles,        \* this.bundles: bundle name -> record
  stored,         \* localStorage[bundlesKey]: Null or the JSON text of the registry
  fs,             \* local file names present in the directory
  localURLs,      \* this.localURLs: remote file -> local URL
  tasks,          \* this.tasks
  doingTasks,     \* this.doingTasks
  execs,          \* task bodies started by the drain loop and not yet called back
  eventQueue,     \* this.eventQueue
  eventTimer,     \* this.eventTimer != null
  eventCallbacks, \* this.eventCallbacks
  flush,          \* position (m, i) of a flush in progress, or NoFlush
  retryTimer,     \* setInterval(kickStartTasks) armed
  result,         \* how the latest turn ended: Ok, or what it threw
  delivered,      \* the listener invocations the latest step made, in order
  late            \* transfers the transport still runs after their wrapper timed out

vars == <<phase, initRun, bundles, stored, fs, localURLs, tasks, doingTasks,
          execs, eventQueue, eventTimer, eventCallbacks, flush, retryTimer,
          result, delivered, late>>

-----------------------------------------------------------------------------
(* The universe the inputs are drawn from. *)

Names == {"A", "B"}
Files == {"f", "g"}
FileLists == {<<>>, <<"f">>, <<"f", "g">>}
Listeners == <<"L1">>

(* The file lists a client gives a bundle of each name: those of B are the  *)
(* one list that shares its file with the lists of A.                       *)
Shapes(n) == IF n = "A" THEN FileLists ELSE {<<"f">>}

MaxTasks == 2
MaxCanceled == 1
MaxQueue == 2
MaxLate == 1

Null == [t |-> "null"]
NoFlush == <<>>
NoInit == <<>>

-----------------------------------------------------------------------------
(* JavaScript values as the client passes them: a type tag and a payload. *)

Str(s) == [t |-> "string", v |-> s]
Num(n) == [t |-> "number", v |-> n]
Arr(q) == [t |-> "array", v |-> q]
Undefined == [t |-> "undefined"]
Obj(name, files, fileSizes) ==
  [t |-> "object", name |-> name, files |-> files, fileSizes |-> fileSizes]

typeof(x) == IF x.t \in {"array", "null"} THEN "object" ELSE x.t

_isArray(o) == o.t = "array"

StrArr(q) == Arr([i \in 1..Len(q) |-> Str(q[i])])
NumArr(q) == Arr([i \in 1..Len(q) |-> Num(q[i])])

PlainInputs ==
  UNION {{Obj(Str(n), StrArr(fl), Undefined) : fl \in Shapes(n)} : n \in Names}

SizedInputs == {Obj(Str("A"), StrArr(<<"f", "g">>), NumArr(<<1, 2>>))}

WellFormedInputs == PlainInputs \cup SizedInputs

MalformedInputs ==
  { Undefined,
    Obj(Num(7), StrArr(<<"f">>), Undefined),
    Obj(Undefined, StrArr(<<"f">>), Undefined),
    Obj(Str("A"), Str("f"), Undefined),
    Obj(Str("A"), Undefined, Undefined),
    Obj(Str("A"), Arr(<<Str("f"), Num(7)>>), Undefined),
    Obj(Str("A"), StrArr(<<"f">>), Num(1)),
    Obj(Str("B"), StrArr(<<"f">>), Null),
    Obj(Str("B"), StrArr(<<"f">>), NumArr(<<1, 2>>)),
    Obj(Str("B"), StrArr(<<"f", "g">>), NumArr(<<1>>)) }

BundleInputs == WellFormedInputs \cup MalformedInputs

(* The plain view of a bundle object that passed validation. *)
Untag(bundle) ==
  LET base == [name |-> bundle.name.v,
               files |-> [i \in 1..Len(bundle.files.v) |-> bundle.files.v[i].v]]
  IN IF bundle.fileSizes.t = "array"
       THEN [name |-> base.name, files |-> base.files,
             fileSizes |-> [i \in 1..Len(bundle.fileSizes.v) |-> bundle.fileSizes.v[i].v]]
       ELSE base

(* A variant that lets any fileSizes pass. *)
_malformedBundle_anySizes(bundle) ==
  IF typeof(bundle) # "object" THEN TRUE
  ELSE IF typeof(bundle.name) # "string" THEN TRUE
  ELSE IF _isArray(bundle.files) = FALSE THEN TRUE
  ELSE IF \E i \in 1..Len(bundle.files.v) : typeof(bundle.files.v[i]) # "string" THEN TRUE
  ELSE FALSE

_malformedBundle(bundle) ==
  IF typeof(bundle) # "object" THEN TRUE
  ELSE IF typeof(bundle.name) # "string" THEN TRUE
  ELSE IF _isArray(bundle.files) = FALSE THEN TRUE
  ELSE IF \E i \in 1..Len(bundle.files.v) : typeof(bundle.files.v[i]) # "string" THEN TRUE
  ELSE IF typeof(bundle.fileSizes) # "undefined"
          /\ (IF _isArray(bundle.fileSizes) = FALSE THEN TRUE
              ELSE Len(bundle.fileSizes.v) # Len(bundle.files.v))
       THEN TRUE
  ELSE FALSE

HasSizes(bundle) == "fileSizes" \in DOMAIN bundle

_copyBundle(bundle) ==
  IF HasSizes(bundle)
    THEN [name |-> bundle.name, files |-> bundle.files, fileSizes |-> bundle.fileSizes]
    ELSE [name |-> bundle.name, files |-> bundle.files]

WithLoaded(copy, loaded) ==
  IF HasSizes(copy)
    THEN [name |-> copy.name, files |-> copy.files, fileSizes |-> copy.fileSizes,
          loaded |-> loaded]
    ELSE [name |-> copy.name, files |-> copy.files, loaded |-> loaded]

-----------------------------------------------------------------------------
(* JSON.stringify / JSON.parse of the registry: the text lists, per bundle, *)
(* its properties in order; an absent fileSizes leaves no property.         *)

JSONstringify(reg) ==
  [n \in DOMAIN reg |->
     IF HasSizes(reg[n])
       THEN <<<<"name", reg[n].name>>, <<"files", reg[n].files>>,
              <<"fileSizes", reg[n].fileSizes>>, <<"loaded", reg[n].loaded>>>>
       ELSE <<<<"name", reg[n].name>>, <<"files", reg[n].files>>,
              <<"loaded", reg[n].loaded>>>>]

JSONparse(text) ==
  [n \in DOMAIN text |->
     IF Len(text[n]) = 4
       THEN [name |-> text[n][1][2], files |-> text[n][2][2],
             fileSizes |-> text[n][3][2], loaded |-> text[n][4][2]]
       ELSE [name |-> text[n][1][2], files |-> text[n][2][2],
             loaded |-> text[n][3][2]]]

EmptyRegistry == [n \in {} |-> Null]

-----------------------------------------------------------------------------
(* The mutable heap a turn works on, as one record. *)

Cur ==
  [bundles |-> bundles, stored |-> stored, fs |-> fs, localURLs |-> localURLs,
   tasks |-> tasks, doingTasks |-> doingTasks, execs |-> execs,
   eventQueue |-> eventQueue, eventTimer |-> eventTimer, called |-> <<>>]

(* Task objects have no name in the program: their identities are renumbered *)
(* by position in the list when a turn ends (left as they are while a body   *)
(* runs for a task that is no longer in the list).                            *)
Renumbered(s) ==
  IF \A e \in s.execs : \E k \in 1..Len(s.tasks) : s.tasks[k].id = e.task
    THEN [s EXCEPT
            !.tasks = [k \in 1..Len(@) |-> [@[k] EXCEPT !.id = k]],
            !.execs = {[e EXCEPT !.task =
                          CHOOSE k \in 1..Len(s.tasks) : s.tasks[k].id = e.task]
                       : e \in @}]
    ELSE s

Normal(s) == Renumbered(s)

Commit(t) ==
  \E s \in {Normal(t)} :
  /\ bundles' = s.bundles
  /\ stored' = s.stored
  /\ fs' = s.fs
  /\ localURLs' = s.localURLs
  /\ tasks' = s.tasks
  /\ doingTasks' = s.doingTasks
  /\ execs' = s.execs
  /\ eventQueue' = s.eventQueue
  /\ eventTimer' = s.eventTimer
  /\ delivered' = s.called

-----------------------------------------------------------------------------
(* The event notification pipeline. *)

NoName == ""
NoDone == <<>>

Event(kind, name, done) == [event |-> kind, name |-> name, done |-> done]

GLOBAL_EVENT_BUSY == Event("busy", NoName, NoDone)
GLOBAL_EVENT_NOTBUSY == Event("notbusy", NoName, NoDone)
BUNDLE_EVENT_LOADING(name) == Event("loading", name, NoDone)
BUNDLE_EVENT_PROGRESS(name, num, den) == Event("progress", name, <<num, den>>)
BUNDLE_EVENT_LOADED(name) == Event("loaded", name, NoDone)
BUNDLE_EVENT_ERROR(name) == Event("error", name, NoDone)

(* The operators that pass the heap on bind their argument once, as s, so  *)
(* that a nested call is evaluated a single time.                          *)

(* A variant that also calls the listeners from inside the call that sends. *)
_sendEvent_synchronous(heap, event) ==
  CHOOSE r \in {
    [s EXCEPT !.eventQueue = Append(@, event),
              !.eventTimer = IF @ = FALSE THEN TRUE ELSE @,
              !.called = @ \o [i \in 1..Len(eventCallbacks) |->
                                 [listener |-> eventCallbacks[i], event |-> event]]]
    : s \in {heap}} : TRUE

(* The event is queued; the flush is a timer of delay 0, set once. *)
_sendEvent(heap, event) ==
  CHOOSE r \in {
    [s EXCEPT !.eventQueue = Append(@, event),
              !.eventTimer = IF @ = FALSE THEN TRUE ELSE @]
    : s \in {heap}} : TRUE

_purgeEvents(s, bundleName) ==
  [s EXCEPT !.eventQueue = SelectSeq(@, LAMBDA e : e.name # bundleName)]

-----------------------------------------------------------------------------
(* Tasks. *)

TASK_TYPE_LOAD == "load"
TASK_TYPE_REMOVE == "remove"

EmptyObject == <<>>

(* A Task object.  The field progress is history: the fraction of the last *)
(* progress event produced for the task, NoDone before the first one.      *)
Task(id, bundleName, type, extra) ==
  [id |-> id, bundleName |-> bundleName, type |-> type, extra |-> extra,
   failed |-> FALSE, canceled |-> FALSE, retry |-> FALSE, ft |-> FALSE,
   progress |-> NoDone]

TaskIds(s) == {s.tasks[k].id : k \in 1..Len(s.tasks)} \cup {e.task : e \in s.execs}

(* The identity of a new Task object: the least one not in use. *)
FreshId(s) ==
  CHOOSE n \in 1..(Cardinality(TaskIds(s)) + 1) :
    /\ n \notin TaskIds(s)
    /\ \A m \in 1..(n - 1) : m \in TaskIds(s)

IndexOfTask(s, id) == CHOOSE k \in 1..Len(s.tasks) : s.tasks[k].id = id

TaskById(s, id) == s.tasks[IndexOfTask(s, id)]

(* tasks.splice(i, 1), i counted from 1 here. *)
Splice(q, i) ==
  IF i \in 1..Len(q)
    THEN [k \in 1..(Len(q) - 1) |-> IF k < i THEN q[k] ELSE q[k + 1]]
    ELSE q

(* A variant that takes a task that does not execute out of the list. *)
TaskAbort_dropsPending(s, k) ==
  IF \E e \in s.execs : e.task = s.tasks[k].id
    THEN _purgeEvents([s EXCEPT !.tasks[k].canceled = TRUE], s.tasks[k].bundleName)
    ELSE _purgeEvents([s EXCEPT !.tasks = Splice(@, k)], s.tasks[k].bundleName)

(* Task.prototype.abort, on the task at position k of the list. *)
TaskAbort(s, k) ==
  LET id == s.tasks[k].id
      s1 == [s EXCEPT !.tasks[k].canceled = TRUE]
      s2 == IF s.tasks[k].ft
              THEN [s1 EXCEPT !.execs =
                      {IF e.task = id /\ e.pc = "download"
                         THEN [e EXCEPT !.aborted = TRUE] ELSE e : e \in @}]
              ELSE s1
  IN _purgeEvents(s2, s.tasks[k].bundleName)

RECURSIVE CancelFrom(_, _, _, _)
CancelFrom(s, k, bundleName, type) ==
  IF k > Len(s.tasks) THEN s
  ELSE IF s.tasks[k].bundleName = bundleName /\ s.tasks[k].type = type
    THEN CancelFrom(TaskAbort(s, k), k + 1, bundleName, type)
    ELSE CancelFrom(s, k + 1, bundleName, type)

_cancelTask(s, bundleName, type) == CancelFrom(s, 1, bundleName, type)

-----------------------------------------------------------------------------
(* The drain loop and the task bodies, up to their first suspension. *)

TotalSize(bundle) ==
  IF HasSizes(bundle)
    THEN LET sum[k \in 0..Len(bundle.fileSizes)] ==
               IF k = 0 THEN 0 ELSE sum[k - 1] + bundle.fileSizes[k]
         IN sum[Len(bundle.fileSizes)]
    ELSE Len(bundle.files)

(* The weight of the file at (0-based) index. *)
Weight(bundle, index) ==
  IF HasSizes(bundle) THEN bundle.fileSizes[index + 1] ELSE 1

_localFileName(uri) == <<"sha1", uri>>

toURL(localName) == Str(<<"file://", localName>>)

_addLocalURL(s, remoteURL, localName) ==
  IF remoteURL \notin DOMAIN s.localURLs
    THEN [s EXCEPT !.localURLs =
            [u \in DOMAIN @ \cup {remoteURL} |->
               IF u = remoteURL THEN toURL(localName) ELSE @[u]]]
    ELSE s

(* A variant that leaves the entry in the map. *)
_removeLocalURL_keepsEntry(s, remoteURL) == s

_removeLocalURL(s, remoteURL) ==
  IF remoteURL \in DOMAIN s.localURLs
    THEN [s EXCEPT !.localURLs = [u \in DOMAIN @ \ {remoteURL} |-> @[u]]]
    ELSE s

NewExec(task, i, bundle) ==
  [task |-> task.id, i |-> i, type |-> task.type, bundle |-> bundle,
   index |-> 0, totalDoneSize |-> 0, pc |-> "start", tick |-> 0, aborted |-> FALSE]

Suspend(s, ex, pc) == [s EXCEPT !.execs = @ \cup {[ex EXCEPT !.pc = pc]}]

(* A variant that takes no file for shared. *)
ReferencedElsewhere_never(s, bundleName, fileName) == FALSE

(* Another bundle of the registry lists the file. *)
ReferencedElsewhere(s, bundleName, fileName) ==
  \E bName \in DOMAIN s.bundles :
    /\ bName # bundleName
    /\ \E findex \in 1..Len(s.bundles[bName].files) :
         s.bundles[bName].files[findex] = fileName

RECURSIVE loop(_)
RECURSIVE onComplete(_, _)
RECURSIVE error(_, _, _)
RECURSIVE DownloadLoop(_, _)
RECURSIVE RemoveLoop(_, _)

(* A variant whose loop takes the first task, failed or not. *)
loop_takesFailed(heap) ==
  CHOOSE r \in {
    LET s1 == [s EXCEPT !.tasks = SelectSeq(@, LAMBDA t : t.canceled = FALSE)]
    IN IF s1.tasks = <<>>
         THEN IF s1.doingTasks
                THEN _sendEvent([s1 EXCEPT !.doingTasks = FALSE], GLOBAL_EVENT_NOTBUSY)
                ELSE s1
         ELSE LET i == 1
                  task == s1.tasks[i]
                  s2 == IF s1.doingTasks = FALSE
                          THEN _sendEvent([s1 EXCEPT !.doingTasks = TRUE], GLOBAL_EVENT_BUSY)
                          ELSE s1
              IN IF task.type = TASK_TYPE_LOAD
                   THEN IF task.bundleName \in DOMAIN s2.bundles
                          THEN DownloadLoop(
                                 _sendEvent(s2, BUNDLE_EVENT_LOADING(task.bundleName)),
                                 NewExec(task, i, _copyBundle(s2.bundles[task.bundleName])))
                          ELSE Suspend(s2, NewExec(task, i, EmptyObject), "TypeError")
                   ELSE RemoveLoop(s2, NewExec(task, i, task.extra))
    : s \in {heap}} : TRUE

(* A variant whose loop leaves canceled Load tasks in the list. *)
loop_keepsCanceledLoads(heap) ==
  CHOOSE r \in {
    LET s1 == [s EXCEPT !.tasks =
                 SelectSeq(@, LAMBDA t : t.canceled = FALSE \/ t.type = TASK_TYPE_LOAD)]
        cand == {k \in 1..Len(s1.tasks) : s1.tasks[k].failed = FALSE}
    IN IF cand = {}
         THEN IF s1.doingTasks
                THEN _sendEvent([s1 EXCEPT !.doingTasks = FALSE], GLOBAL_EVENT_NOTBUSY)
                ELSE s1
         ELSE LET i == CHOOSE k \in cand : \A j \in cand : k <= j
                  task == s1.tasks[i]
                  s2 == IF s1.doingTasks = FALSE
                          THEN _sendEvent([s1 EXCEPT !.doingTasks = TRUE], GLOBAL_EVENT_BUSY)
                          ELSE s1
              IN IF task.type = TASK_TYPE_LOAD
                   THEN IF task.bundleName \in DOMAIN s2.bundles
                          THEN DownloadLoop(
                                 _sendEvent(s2, BUNDLE_EVENT_LOADING(task.bundleName)),
                                 NewExec(task, i, _copyBundle(s2.bundles[task.bundleName])))
                          ELSE Suspend(s2, NewExec(task, i, EmptyObject), "TypeError")
                   ELSE RemoveLoop(s2, NewExec(task, i, task.extra))
    : s \in {heap}} : TRUE

(* A variant whose loop sends the busy event for every task it takes. *)
loop_busyEveryTask(heap) ==
  CHOOSE r \in {
    LET s1 == [s EXCEPT !.tasks = SelectSeq(@, LAMBDA t : t.canceled = FALSE)]
        cand == {k \in 1..Len(s1.tasks) : s1.tasks[k].failed = FALSE}
    IN IF cand = {}
         THEN IF s1.doingTasks
                THEN _sendEvent([s1 EXCEPT !.doingTasks = FALSE], GLOBAL_EVENT_NOTBUSY)
                ELSE s1
         ELSE LET i == CHOOSE k \in cand : \A j \in cand : k <= j
                  task == s1.tasks[i]
                  s2 == _sendEvent([s1 EXCEPT !.doingTasks = TRUE], GLOBAL_EVENT_BUSY)
              IN IF task.type = TASK_TYPE_LOAD
                   THEN IF task.bundleName \in DOMAIN s2.bundles
                          THEN DownloadLoop(
                                 _sendEvent(s2, BUNDLE_EVENT_LOADING(task.bundleName)),
                                 NewExec(task, i, _copyBundle(s2.bundles[task.bundleName])))
                          ELSE Suspend(s2, NewExec(task, i, EmptyObject), "TypeError")
                   ELSE RemoveLoop(s2, NewExec(task, i, task.extra))
    : s \in {heap}} : TRUE

(* _doTasks' loop(): strip the canceled tasks, take the first non-failed one. *)
loop(heap) ==
  CHOOSE r \in {
    LET s1 == [s EXCEPT !.tasks = SelectSeq(@, LAMBDA t : t.canceled = FALSE)]
        cand == {k \in 1..Len(s1.tasks) : s1.tasks[k].failed = FALSE}
    IN IF cand = {}
         THEN IF s1.doingTasks
                THEN _sendEvent([s1 EXCEPT !.doingTasks = FALSE], GLOBAL_EVENT_NOTBUSY)
                ELSE s1
         ELSE LET i == CHOOSE k \in cand : \A j \in cand : k <= j
                  task == s1.tasks[i]
                  s2 == IF s1.doingTasks = FALSE
                          THEN _sendEvent([s1 EXCEPT !.doingTasks = TRUE], GLOBAL_EVENT_BUSY)
                          ELSE s1
              IN IF task.type = TASK_TYPE_LOAD
                   THEN IF task.bundleName \in DOMAIN s2.bundles
                          THEN DownloadLoop(
                                 _sendEvent(s2, BUNDLE_EVENT_LOADING(task.bundleName)),
                                 NewExec(task, i, _copyBundle(s2.bundles[task.bundleName])))
                          ELSE Suspend(s2, NewExec(task, i, EmptyObject), "TypeError")
                   ELSE RemoveLoop(s2, NewExec(task, i, task.extra))
    : s \in {heap}} : TRUE

(* A variant that leaves every failed task in the list. *)
onComplete_keepsFailed(heap, ex) ==
  CHOOSE r \in {
    LET task == TaskById(s, ex.task)
    IN IF task.canceled THEN loop(s)
       ELSE IF task.failed
         THEN loop(s)
         ELSE loop([s EXCEPT !.tasks = Splice(@, ex.i)])
    : s \in {heap}} : TRUE

(* onComplete of _doTasks, for the task body ex. *)
onComplete(heap, ex) ==
  CHOOSE r \in {
    LET task == TaskById(s, ex.task)
    IN IF task.canceled THEN loop(s)
       ELSE IF task.failed
         THEN IF task.retry = FALSE
                THEN loop([s EXCEPT !.tasks = Splice(@, ex.i)])
                ELSE loop(s)
         ELSE loop([s EXCEPT !.tasks = Splice(@, ex.i)])
    : s \in {heap}} : TRUE

(* A variant that fails the task without sending the error event. *)
error_silent(heap, ex, retry) ==
  CHOOSE r \in {
    LET k == IndexOfTask(s, ex.task)
        s1 == [s EXCEPT !.tasks[k].failed = TRUE, !.tasks[k].retry = retry]
    IN onComplete(s1, ex)
    : s \in {heap}} : TRUE

(* error(errorStr, retry) of _downloadBundle. *)
error(heap, ex, retry) ==
  CHOOSE r \in {
    LET k == IndexOfTask(s, ex.task)
        s1 == [s EXCEPT !.tasks[k].failed = TRUE, !.tasks[k].retry = retry]
        s2 == IF retry = FALSE /\ s1.tasks[k].canceled = FALSE
                THEN _sendEvent(s1, BUNDLE_EVENT_ERROR(ex.bundle.name))
                ELSE s1
    IN onComplete(s2, ex)
    : s \in {heap}} : TRUE

(* A variant that sets the loaded flag without writing the registry out. *)
DownloadLoop_loadedNotStored(heap, ex) ==
  CHOOSE r \in {
    IF TaskById(s, ex.task).canceled THEN error(s, ex, FALSE)
    ELSE IF ex.index = Len(ex.bundle.files)
      THEN LET s1 == IF ex.bundle.name \in DOMAIN s.bundles
                       THEN [s EXCEPT !.bundles[ex.bundle.name].loaded = TRUE]
                       ELSE s
           IN onComplete(_sendEvent(s1, BUNDLE_EVENT_LOADED(ex.bundle.name)), ex)
      ELSE Suspend(s, ex, "probe")
    : s \in {heap}} : TRUE

(* loop(index) of _downloadBundle, up to the filesystem probe. *)
DownloadLoop(heap, ex) ==
  CHOOSE r \in {
    IF TaskById(s, ex.task).canceled THEN error(s, ex, FALSE)
    ELSE IF ex.index = Len(ex.bundle.files)
      THEN LET s1 == IF ex.bundle.name \in DOMAIN s.bundles
                       THEN [s EXCEPT !.bundles[ex.bundle.name].loaded = TRUE]
                       ELSE s
               s2 == [s1 EXCEPT !.stored = JSONstringify(s1.bundles)]
           IN onComplete(_sendEvent(s2, BUNDLE_EVENT_LOADED(ex.bundle.name)), ex)
      ELSE Suspend(s, ex, "probe")
    : s \in {heap}} : TRUE

(* loop(index) of _removeBundleFiles, up to the filesystem lookup. *)
RemoveLoop(heap, ex) ==
  CHOOSE r \in {
    IF TaskById(s, ex.task).canceled \/ ex.index = Len(ex.bundle.files)
      THEN onComplete(s, ex)
    ELSE IF ReferencedElsewhere(s, ex.bundle.name, ex.bundle.files[ex.index + 1])
      THEN RemoveLoop(s, [ex EXCEPT !.index = @ + 1])
      ELSE Suspend(s, ex, "lookup")
    : s \in {heap}} : TRUE

(* A variant that drains whether or not a task is executing. *)
_doTasks_unguarded(s) == loop(s)

_doTasks(s) == IF s.doingTasks THEN s ELSE loop(s)

(* A variant that appends without looking for a live task of the pair. *)
_maybeAddTask_always(s, bundleName, type, extra) ==
  _doTasks([s EXCEPT !.tasks = Append(@, Task(FreshId(s), bundleName, type, extra))])

_maybeAddTask(s, bundleName, type, extra) ==
  IF \E k \in 1..Len(s.tasks) :
       /\ s.tasks[k].bundleName = bundleName
       /\ s.tasks[k].type = type
       /\ s.tasks[k].canceled = FALSE
    THEN s
    ELSE _doTasks([s EXCEPT !.tasks = Append(@, Task(FreshId(s), bundleName, type, extra))])


-----------------------------------------------------------------------------
(* The public operations. *)

(* A variant that registers over a bundle of the same name. *)
addBundle_overwriting(s, bundle) ==
  IF _malformedBundle(bundle) THEN s
  ELSE LET bundleName == bundle.name.v
           copy == WithLoaded(_copyBundle(Untag(bundle)), FALSE)
           s1 == [s EXCEPT !.bundles =
                    [n \in DOMAIN @ \cup {bundleName} |->
                       IF n = bundleName THEN copy ELSE @[n]]]
           s2 == [s1 EXCEPT !.stored = JSONstringify(s1.bundles)]
           s3 == _cancelTask(s2, bundleName, TASK_TYPE_REMOVE)
       IN _maybeAddTask(s3, bundleName, TASK_TYPE_LOAD, EmptyObject)

(* DAM.prototype.addBundle, on the heap s. *)
addBundle(s, bundle) ==
  IF _malformedBundle(bundle) THEN s
  ELSE IF bundle.name.v \in DOMAIN s.bundles THEN s
  ELSE LET bundleName == bundle.name.v
           copy == WithLoaded(_copyBundle(Untag(bundle)), FALSE)
           s1 == [s EXCEPT !.bundles =
                    [n \in DOMAIN @ \cup {bundleName} |->
                       IF n = bundleName THEN copy ELSE @[n]]]
           s2 == [s1 EXCEPT !.stored = JSONstringify(s1.bundles)]
           s3 == _cancelTask(s2, bundleName, TASK_TYPE_REMOVE)
       IN _maybeAddTask(s3, bundleName, TASK_TYPE_LOAD, EmptyObject)

(* How a turn ends: it returns (Ok), or it throws a message; a throw of     *)
(* addBundle is kept with the name the bundle passed carried (NoName when   *)
(* it carried no string).                                                   *)
Ok == [threw |-> "", name |-> NoName]

Threw(message, bundle) ==
  [threw |-> message,
   name |-> IF bundle.t = "object" /\ bundle.name.t = "string"
              THEN bundle.name.v ELSE NoName]

addBundleResult(s, bundle) ==
  IF _malformedBundle(bundle)
    THEN Threw("Malformed bundle passed to addBundle", bundle)
    ELSE Ok

(* A variant that leaves the Load tasks of the bundle as they are. *)
removeBundle_keepsLoad(s, bundleName) ==
  IF bundleName \in DOMAIN s.bundles
    THEN LET removedBundle == s.bundles[bundleName]
             s1 == [s EXCEPT !.bundles = [n \in DOMAIN @ \ {bundleName} |-> @[n]]]
             s2 == [s1 EXCEPT !.stored = JSONstringify(s1.bundles)]
         IN _maybeAddTask(s2, bundleName, TASK_TYPE_REMOVE, removedBundle)
    ELSE s

(* DAM.prototype.removeBundle, on the heap s. *)
removeBundle(s, bundleName) ==
  IF bundleName \in DOMAIN s.bundles
    THEN LET removedBundle == s.bundles[bundleName]
             s1 == [s EXCEPT !.bundles = [n \in DOMAIN @ \ {bundleName} |-> @[n]]]
             s2 == [s1 EXCEPT !.stored = JSONstringify(s1.bundles)]
             s3 == _cancelTask(s2, bundleName, TASK_TYPE_LOAD)
         IN _maybeAddTask(s3, bundleName, TASK_TYPE_REMOVE, removedBundle)
    ELSE s

(* DAM.prototype.getBundle: a record, or Undefined. *)
getBundle(s, bundleName) ==
  IF bundleName \in DOMAIN s.bundles THEN _copyBundle(s.bundles[bundleName]) ELSE Undefined

bundleAdded(s, bundleName) == bundleName \in DOMAIN s.bundles

bundleLoaded(s, bundleName) ==
  IF bundleName \in DOMAIN s.bundles THEN s.bundles[bundleName].loaded ELSE FALSE

(* DAM.prototype.localURL: a URL, or Undefined. *)
localURL(s, remoteFile) ==
  IF remoteFile \in DOMAIN s.localURLs THEN s.localURLs[remoteFile] ELSE Undefined

(* What the model's bounds leave room for: a turn that leaves the heap s   *)
(* may lengthen the event queue only when fewer than MaxQueue events are   *)
(* pending, and leaves in the list at most MaxTasks tasks and MaxCanceled  *)
(* canceled ones that wait for the loop to strip them.                     *)
Fits(s) ==
  /\ Len(SelectSeq(s.tasks, LAMBDA t : t.canceled = FALSE)) <= MaxTasks
  /\ Len(SelectSeq(s.tasks, LAMBDA t : t.canceled)) <= MaxCanceled
  /\ Len(eventQueue) < MaxQueue \/ Len(s.eventQueue) <= Len(eventQueue)

Flushing == flush # NoFlush

(* A client call: from the top level, or from a listener during a flush. *)
AddBundle(bundle) ==
  /\ phase = "ready"
  /\ result' = addBundleResult(Cur, bundle)
  /\ \E s \in {addBundle(Cur, bundle)} :
        /\ Fits(s)
        /\ Commit(s)
  /\ UNCHANGED <<phase, initRun, eventCallbacks, flush, retryTimer, late>>

RemoveBundle(bundleName) ==
  /\ phase = "ready"
  /\ \E s \in {removeBundle(Cur, bundleName)} :
        /\ Fits(s)
        /\ Commit(s)
  /\ result' = Ok
  /\ UNCHANGED <<phase, initRun, eventCallbacks, flush, retryTimer, late>>

(* DAM.prototype.registerEventCallback; the listeners register in turn. *)
RegisterEventCallback ==
  /\ phase = "new"
  /\ Len(eventCallbacks) < Len(Listeners)
  /\ eventCallbacks' = Append(eventCallbacks, Listeners[Len(eventCallbacks) + 1])
  /\ result' = Ok
  /\ delivered' = <<>>
  /\ UNCHANGED <<phase, initRun, bundles, stored, fs, localURLs, tasks, doingTasks,
                 execs, eventQueue, eventTimer, flush, retryTimer, late>>

-----------------------------------------------------------------------------
(* The flush of the event queue: the function _sendEvent hands to setTimeout. *)

(* The next (m, i), both from 0, at which the loops call a listener; <<>> when *)
(* the loops are over.                                                         *)
RECURSIVE FlushPos(_, _, _, _)
FlushPos(queue, callbacks, m, i) ==
  IF m >= Len(queue) THEN <<>>
  ELSE IF i >= Len(callbacks) THEN FlushPos(queue, callbacks, m + 1, 0)
  ELSE <<m, i>>

FlushAt ==
  IF Flushing THEN FlushPos(eventQueue, eventCallbacks, flush[1], flush[2])
  ELSE FlushPos(eventQueue, eventCallbacks, 0, 0)

FlushDeliver ==
  /\ eventTimer
  /\ FlushAt # <<>>
  /\ delivered' = <<[listener |-> eventCallbacks[FlushAt[2] + 1],
                     event |-> eventQueue[FlushAt[1] + 1]]>>
  /\ flush' = <<FlushAt[1], FlushAt[2] + 1>>
  /\ result' = Ok
  /\ UNCHANGED <<phase, initRun, bundles, stored, fs, localURLs, tasks, doingTasks,
                 execs, eventQueue, eventTimer, eventCallbacks, retryTimer, late>>

FlushEnd ==
  /\ eventTimer
  /\ FlushAt = <<>>
  /\ eventTimer' = FALSE
  /\ eventQueue' = <<>>
  /\ flush' = NoFlush
  /\ delivered' = <<>>
  /\ result' = Ok
  /\ UNCHANGED <<phase, initRun, bundles, stored, fs, localURLs, tasks, doingTasks,
                 execs, eventCallbacks, retryTimer, late>>

-----------------------------------------------------------------------------
(* The retry timer. *)

(* A variant that drains without clearing the flags of the failed tasks. *)
kickStartTasks_noRearm(s) == _doTasks(s)

kickStartTasks(s) ==
  _doTasks([s EXCEPT !.tasks =
              [k \in 1..Len(@) |->
                 IF @[k].canceled = FALSE /\ @[k].failed = TRUE /\ @[k].retry = TRUE
                   THEN [@[k] EXCEPT !.failed = FALSE, !.retry = FALSE]
                   ELSE @[k]]])

KickStartTasks ==
  /\ retryTimer
  /\ ~Flushing
  /\ \E s \in {kickStartTasks(Cur)} :
        /\ Fits(s)
        /\ Commit(s)
  /\ result' = Ok
  /\ UNCHANGED <<phase, initRun, eventCallbacks, flush, retryTimer, late>>


-----------------------------------------------------------------------------
(* The callbacks of a Load task body (_downloadBundle). *)

LocalOf(ex) == _localFileName(ex.bundle.files[ex.index + 1])

Resume(ex) == [Cur EXCEPT !.execs = @ \ {ex}]

Step(t) ==
  /\ \E s \in {t} :
        /\ Fits(s)
        /\ Commit(s)
  /\ result' = Ok
  /\ UNCHANGED <<phase, initRun, eventCallbacks, flush, retryTimer, late>>

(* What the transport reports of a download in progress: (loaded, total). *)
ProgressTicks == {<<1, 2>>, <<2, 2>>}

(* The errors a download can fail with: code and http_status (0: none). *)
ABORT_ERR == "ABORT_ERR"
CONNECTION_ERR == "CONNECTION_ERR"
FILE_NOT_FOUND_ERR == "FILE_NOT_FOUND_ERR"
NoStatus == 0
AbortError == [code |-> ABORT_ERR, http_status |-> NoStatus]
TransferErrors ==
  {[code |-> CONNECTION_ERR, http_status |-> NoStatus],
   [code |-> CONNECTION_ERR, http_status |-> 200],
   [code |-> FILE_NOT_FOUND_ERR, http_status |-> 404]}

(* _sendEvent of a progress event with the fraction num/den for the task of *)
(* the body ex.                                                             *)
sendProgress(heap, ex, num, den) ==
  CHOOSE r \in {
    [_sendEvent(s, BUNDLE_EVENT_PROGRESS(ex.bundle.name, num, den))
       EXCEPT !.tasks[IndexOfTask(s, ex.task)].progress = <<num, den>>]
    : s \in {heap}} : TRUE

(* The first getFile found the file: progress, then the next file. *)
probeFound(heap, ex) ==
  CHOOSE r \in {
    IF TaskById(s, ex.task).canceled = FALSE
      THEN LET done == ex.totalDoneSize + Weight(ex.bundle, ex.index)
           IN DownloadLoop(
                sendProgress(s, ex, done, TotalSize(ex.bundle)),
                [ex EXCEPT !.totalDoneSize = done, !.index = @ + 1])
      ELSE DownloadLoop(s, [ex EXCEPT !.index = @ + 1])
    : s \in {heap}} : TRUE

ProbeFound(ex) ==
  /\ ~Flushing
  /\ ex.type = TASK_TYPE_LOAD /\ ex.pc = "probe"
  /\ LocalOf(ex) \in fs
  /\ Step(probeFound(Resume(ex), ex))

(* The first getFile failed: getFile again, with create. *)
ProbeMissing(ex) ==
  /\ ~Flushing
  /\ ex.type = TASK_TYPE_LOAD /\ ex.pc = "probe"
  /\ LocalOf(ex) \notin fs
  /\ Step(Suspend(Resume(ex), ex, "create"))

(* The file is created; the transfer starts and task.ft holds its wrapper. *)
createOk(s, ex) ==
  LET k == IndexOfTask(s, ex.task)
      s1 == [s EXCEPT !.fs = @ \cup {LocalOf(ex)}, !.tasks[k].ft = TRUE]
  IN Suspend(s1, [ex EXCEPT !.tick = 0, !.aborted = FALSE], "download")

CreateOk(ex) ==
  /\ ~Flushing
  /\ ex.type = TASK_TYPE_LOAD /\ ex.pc = "create"
  /\ Step(createOk(Resume(ex), ex))

CreateFail(ex) ==
  /\ ~Flushing
  /\ ex.type = TASK_TYPE_LOAD /\ ex.pc = "create"
  /\ Step(error(Resume(ex), ex, FALSE))

(* task.ft.onprogress *)
onprogress(s, ex, lengthComputable, tick) ==
  LET ex1 == [ex EXCEPT !.tick = tick[1]]
  IN IF lengthComputable /\ TaskById(s, ex.task).canceled = FALSE
       THEN Suspend(
              sendProgress(s, ex,
                ex.totalDoneSize * tick[2] + tick[1] * Weight(ex.bundle, ex.index),
                TotalSize(ex.bundle) * tick[2]),
              ex1, "download")
       ELSE Suspend(s, ex1, "download")

DownloadProgress(ex, lengthComputable, tick) ==
  /\ ~Flushing
  /\ ex.type = TASK_TYPE_LOAD /\ ex.pc = "download"
  /\ tick[1] >= ex.tick
  /\ Step(onprogress(Resume(ex), ex, lengthComputable, tick))

_downloadSuccess(s, ex) ==
  LET k == IndexOfTask(s, ex.task)
      s1 == [s EXCEPT !.tasks[k].ft = FALSE]
      s2 == _addLocalURL(s1, ex.bundle.files[ex.index + 1], LocalOf(ex))
  IN probeFound(s2, ex)

DownloadSuccess(ex) ==
  /\ ~Flushing
  /\ ex.type = TASK_TYPE_LOAD /\ ex.pc = "download"
  /\ Step(_downloadSuccess(Resume(ex), ex))

(* A variant that retries after every failure of a transfer. *)
_downloadFail_alwaysRetries(s, ex, err) ==
  LET k == IndexOfTask(s, ex.task)
      s1 == [s EXCEPT !.tasks[k].ft = FALSE, !.fs = @ \ {LocalOf(ex)}]
  IN IF err.code = ABORT_ERR THEN onComplete(s1, ex)
     ELSE error(s1, ex, TRUE)

_downloadFail(s, ex, err) ==
  LET k == IndexOfTask(s, ex.task)
      s1 == [s EXCEPT !.tasks[k].ft = FALSE, !.fs = @ \ {LocalOf(ex)}]
  IN IF err.code = ABORT_ERR THEN onComplete(s1, ex)
     ELSE error(s1, ex, err.http_status = NoStatus \/ err.http_status = 200)

DownloadFail(ex, err) ==
  /\ ~Flushing
  /\ ex.type = TASK_TYPE_LOAD /\ ex.pc = "download"
  /\ err.code = ABORT_ERR => ex.aborted
  /\ Step(_downloadFail(Resume(ex), ex, err))

(* The wrapper's own timeout: the failure callback, with a connection error. *)
DownloadTimeout(ex) ==
  /\ ~Flushing
  /\ ex.type = TASK_TYPE_LOAD /\ ex.pc = "download"
  /\ Step(_downloadFail(Resume(ex), ex,
            [code |-> CONNECTION_ERR, http_status |-> NoStatus]))

(* The closure of _cordova_download for the transfer of the body ex: the   *)
(* flag timed_out, and calls, which is history: how many times the wrapper *)
(* has called a continuation of the task (success_callback or              *)
(* error_callback).                                                        *)
Wrapper(ex) ==
  [name |-> ex.bundle.name, file |-> ex.bundle.files[ex.index + 1],
   timed_out |-> FALSE, calls |-> 0]

(* timeout() of _cordova_download: the flag is set, error_callback called. *)
timeout(w) == [w EXCEPT !.timed_out = TRUE, !.calls = @ + 1]

(* A variant that passes every callback of the transport on. *)
transportCallback_unguarded(w) == [w EXCEPT !.calls = @ + 1]

(* The success and error callbacks the wrapper hands to the transport: the *)
(* continuation is called unless the wrapper has timed out.                *)
transportCallback(w) ==
  IF ~w.timed_out THEN [w EXCEPT !.calls = @ + 1] ELSE w

(* The wrapper's timeout while the transport is still at work: the failure *)
(* callback, with a connection error; the transport keeps the transfer.    *)
DownloadTimeoutEarly(ex) ==
  /\ ~Flushing
  /\ ex.type = TASK_TYPE_LOAD /\ ex.pc = "download"
  /\ Cardinality(late) < MaxLate
  /\ timeout(Wrapper(ex)) \notin late
  /\ \E s \in {_downloadFail(Resume(ex), ex,
                   [code |-> CONNECTION_ERR, http_status |-> NoStatus])} :
        /\ Fits(s)
        /\ Commit(s)
  /\ late' = late \cup {timeout(Wrapper(ex))}
  /\ result' = Ok
  /\ UNCHANGED <<phase, initRun, eventCallbacks, flush, retryTimer>>

(* The transport calls back for a transfer whose wrapper has timed out,    *)
(* with success or with an error, and is done with it; the local file, the *)
(* task's entry of which was removed at the timeout, is in the directory   *)
(* afterwards or not, as the platform has it.  A transfer that had a       *)
(* continuation called again stays on record.                              *)
LateCallback(w, present) ==
  /\ ~Flushing
  /\ w \in late
  /\ w.calls = 1
  /\ late' = IF transportCallback(w) = w
               THEN late \ {w}
               ELSE (late \ {w}) \cup {transportCallback(w)}
  /\ fs' = IF present THEN fs \cup {_localFileName(w.file)} ELSE fs
  /\ result' = Ok
  /\ delivered' = <<>>
  /\ UNCHANGED <<phase, initRun, bundles, stored, localURLs, tasks, doingTasks,
                 execs, eventQueue, eventTimer, eventCallbacks, flush, retryTimer>>

-----------------------------------------------------------------------------
(* The callbacks of a Remove task body (_removeBundleFiles). *)

(* getFile found the file: its removal is asked for, its local URL dropped. *)
LookupFound(ex) ==
  /\ ~Flushing
  /\ ex.type = TASK_TYPE_REMOVE /\ ex.pc = "lookup"
  /\ LocalOf(ex) \in fs
  /\ Step(Suspend(_removeLocalURL(Resume(ex), ex.bundle.files[ex.index + 1]),
                  ex, "remove"))

LookupMissing(ex) ==
  /\ ~Flushing
  /\ ex.type = TASK_TYPE_REMOVE /\ ex.pc = "lookup"
  /\ LocalOf(ex) \notin fs
  /\ Step(RemoveLoop(Resume(ex), [ex EXCEPT !.index = @ + 1]))

(* fileEntry.remove called back: the file is gone. *)
fileRemoved(s, ex) ==
  RemoveLoop([s EXCEPT !.fs = @ \ {LocalOf(ex)}], [ex EXCEPT !.index = @ + 1])

FileRemoved(ex) ==
  /\ ~Flushing
  /\ ex.type = TASK_TYPE_REMOVE /\ ex.pc = "remove"
  /\ Step(fileRemoved(Resume(ex), ex))


-----------------------------------------------------------------------------
(* DAM.prototype.init. *)

Perms(S) ==
  {q \in [1..Cardinality(S) -> S] : \A i, j \in 1..Cardinality(S) : i # j => q[i] # q[j]}

InitRun(names, index, findex) == [names |-> names, index |-> index, findex |-> findex]

(* The tail of init's status callback: a Load task for every bundle that is *)
(* not loaded, a loaded event for every one that is.                        *)
RECURSIVE initTasks(_, _, _)

(* A variant that adds no task for the bundles that are not loaded. *)
initTasks_noTasks(s, names, k) ==
  IF k > Len(names) THEN s
  ELSE IF names[k] \notin DOMAIN s.bundles THEN initTasks(s, names, k + 1)
  ELSE IF s.bundles[names[k]].loaded = FALSE
    THEN initTasks(s, names, k + 1)
    ELSE initTasks(_sendEvent(s, BUNDLE_EVENT_LOADED(s.bundles[names[k]].name)),
                   names, k + 1)

initTasks(s, names, k) ==
  IF k > Len(names) THEN s
  ELSE IF names[k] \notin DOMAIN s.bundles THEN initTasks(s, names, k + 1)
  ELSE IF s.bundles[names[k]].loaded = FALSE
    THEN initTasks(_maybeAddTask(s, s.bundles[names[k]].name, TASK_TYPE_LOAD, EmptyObject),
                   names, k + 1)
    ELSE initTasks(_sendEvent(s, BUNDLE_EVENT_LOADED(s.bundles[names[k]].name)),
                   names, k + 1)

(* _checkBundleLoadStatusAll and _checkBundleLoadStatus, up to the next     *)
(* getFile: the heap, and the closure left waiting (NoInit: init is over).  *)
RECURSIVE checkLoop(_, _)
checkLoop(s, run) ==
  IF run.index = Len(run.names)
    THEN [heap |-> initTasks([s EXCEPT !.stored = JSONstringify(s.bundles)], run.names, 1),
          run |-> NoInit]
  ELSE LET name == run.names[run.index + 1]
       IN IF run.findex = Len(s.bundles[name].files)
            THEN checkLoop([s EXCEPT !.bundles[name].loaded = TRUE],
                           InitRun(run.names, run.index + 1, 0))
            ELSE [heap |-> s, run |-> run]

InitStep(t) ==
  \E r \in {t} :
  /\ Fits(r.heap)
  /\ Commit(r.heap)
  /\ initRun' = r.run
  /\ phase' = IF r.run = NoInit THEN "ready" ELSE "check"
  /\ retryTimer' = (r.run = NoInit)
  /\ result' = Ok
  /\ UNCHANGED <<eventCallbacks, flush, late>>

InitFail ==
  /\ phase' = "failed"
  /\ result' = Ok
  /\ delivered' = <<>>
  /\ UNCHANGED <<initRun, bundles, stored, fs, localURLs, tasks, doingTasks, execs,
                 eventQueue, eventTimer, eventCallbacks, flush, retryTimer, late>>

InitCall ==
  /\ phase = "new"
  /\ bundles' = IF stored = Null THEN EmptyRegistry ELSE JSONparse(stored)
  /\ phase' = "fs"
  /\ result' = Ok
  /\ delivered' = <<>>
  /\ UNCHANGED <<initRun, stored, fs, localURLs, tasks, doingTasks, execs,
                 eventQueue, eventTimer, eventCallbacks, flush, retryTimer, late>>

_haveDirectoryEntry ==
  \E names \in Perms(DOMAIN bundles) : InitStep(checkLoop(Cur, InitRun(names, 0, 0)))

(* requestFileSystem called back; with a base directory, getDirectory is next. *)
FileSystemOk(baseDir) ==
  /\ phase = "fs"
  /\ ~Flushing
  /\ IF baseDir = ""
       THEN _haveDirectoryEntry
       ELSE /\ phase' = "dir"
            /\ result' = Ok
            /\ delivered' = <<>>
            /\ UNCHANGED <<initRun, bundles, stored, fs, localURLs, tasks, doingTasks,
                           execs, eventQueue, eventTimer, eventCallbacks, flush,
                           retryTimer, late>>

FileSystemFail ==
  /\ phase = "fs"
  /\ ~Flushing
  /\ InitFail

DirectoryOk ==
  /\ phase = "dir"
  /\ ~Flushing
  /\ _haveDirectoryEntry

DirectoryFail ==
  /\ phase = "dir"
  /\ ~Flushing
  /\ InitFail

InitFile == bundles[initRun.names[initRun.index + 1]].files[initRun.findex + 1]

InitProbeFound ==
  /\ phase = "check"
  /\ ~Flushing
  /\ _localFileName(InitFile) \in fs
  /\ InitStep(checkLoop(_addLocalURL(Cur, InitFile, _localFileName(InitFile)),
                        InitRun(initRun.names, initRun.index, initRun.findex + 1)))

InitProbeMissing ==
  /\ phase = "check"
  /\ ~Flushing
  /\ _localFileName(InitFile) \notin fs
  /\ InitStep(checkLoop(
       [Cur EXCEPT !.bundles[initRun.names[initRun.index + 1]].loaded = FALSE],
       InitRun(initRun.names, initRun.index + 1, 0)))

-----------------------------------------------------------------------------
(* The specification. *)

BaseDirs == {"", "asset_folder"}

BundleRecords ==
  {WithLoaded(_copyBundle(Untag(b)), l) : b \in PlainInputs, l \in BOOLEAN}

AllPresent(rec, files) ==
  \A k \in 1..Len(rec.files) : _localFileName(rec.files[k]) \in files

(* What an earlier run of the program can have left behind: a registry in   *)
(* localStorage (or none) and files in the directory.  A bundle is stored   *)
(* as loaded only with all its files there.                                 *)
Registries(files) ==
  UNION {{r \in [D -> BundleRecords] :
            \A n \in D : r[n].name = n /\ (r[n].loaded => AllPresent(r[n], files))}
         : D \in SUBSET Names}

Init ==
  /\ phase = "new"
  /\ initRun = NoInit
  /\ bundles = EmptyRegistry
  /\ fs \in SUBSET {_localFileName(f) : f \in Files}
  /\ stored \in {Null} \cup {JSONstringify(r) : r \in Registries(fs)}
  /\ localURLs = EmptyRegistry
  /\ tasks = <<>>
  /\ doingTasks = FALSE
  /\ execs = {}
  /\ eventQueue = <<>>
  /\ eventTimer = FALSE
  /\ eventCallbacks = <<>>
  /\ flush = NoFlush
  /\ retryTimer = FALSE
  /\ result = Ok
  /\ delivered = <<>>
  /\ late = {}

(* The callbacks of init. *)
InitSteps ==
  \/ InitCall
  \/ \E baseDir \in BaseDirs : FileSystemOk(baseDir)
  \/ FileSystemFail
  \/ DirectoryOk
  \/ DirectoryFail
  \/ InitProbeFound
  \/ InitProbeMissing

(* The retry timer and the callbacks of the task bodies. *)
TaskSteps ==
  \/ KickStartTasks
  \/ \E ex \in execs : ProbeFound(ex)
  \/ \E ex \in execs : ProbeMissing(ex)
  \/ \E ex \in execs : CreateOk(ex)
  \/ \E ex \in execs : CreateFail(ex)
  \/ \E ex \in execs : DownloadSuccess(ex)
  \/ \E ex \in execs, err \in TransferErrors \cup {AbortError} : DownloadFail(ex, err)
  \/ \E ex \in execs : DownloadTimeout(ex)
  \/ \E ex \in execs : LookupFound(ex)
  \/ \E ex \in execs : LookupMissing(ex)
  \/ \E ex \in execs : FileRemoved(ex)

(* The client calls only while the task list stays within MaxTasks. *)
Short == Len(tasks) <= MaxTasks

(* A client with its listener, passing bundles without size hints. *)
Next ==
  \/ InitSteps
  \/ RegisterEventCallback
  \/ \E bundle \in PlainInputs : AddBundle(bundle) /\ Short'
  \/ \E bundleName \in Names : RemoveBundle(bundleName) /\ Short'
  \/ FlushDeliver
  \/ FlushEnd
  \/ TaskSteps

Spec == Init /\ [][Next]_vars

(* A client without listeners that manages bundle A, which an earlier run *)
(* can have left behind, and passes every input, the malformed ones        *)
(* included; the transport reports its progress.                           *)
APIInputs == {b \in BundleInputs : _malformedBundle(b) \/ b.name.v = "A"}

InitAPI ==
  /\ Init
  /\ stored \in {Null} \cup {JSONstringify(r) : r \in {q \in Registries(fs) : "B" \notin DOMAIN q}}

NextAPI ==
  \/ InitSteps
  \/ \E bundle \in APIInputs : AddBundle(bundle) /\ Short'
  \/ \E bundleName \in Names : RemoveBundle(bundleName) /\ Short'
  \/ FlushEnd
  \/ TaskSteps
  \/ \E ex \in execs, lengthComputable \in BOOLEAN, tick \in ProgressTicks :
       DownloadProgress(ex, lengthComputable, tick)

SpecAPI == InitAPI /\ [][NextAPI]_vars

(* A first run of the program, nothing stored and the directory empty, with *)
(* a client without listeners whose calls leave canceled tasks waiting in   *)
(* the list.                                                                *)
InitQueue ==
  /\ Init
  /\ stored = Null
  /\ fs = {}

InitStepsQueue ==
  \/ InitCall
  \/ \E baseDir \in BaseDirs : FileSystemOk(baseDir)
  \/ FileSystemFail
  \/ DirectoryOk
  \/ DirectoryFail

NextQueue ==
  \/ InitStepsQueue
  \/ \E bundle \in PlainInputs : AddBundle(bundle)
  \/ \E bundleName \in Names : RemoveBundle(bundleName)
  \/ FlushEnd
  \/ TaskSteps

SpecQueue == InitQueue /\ [][NextQueue]_vars

(* What the platform's scheduling gives: the interval timer set by init     *)
(* keeps firing, the zero-delay timer of the event queue fires, and every   *)
(* filesystem or transport request is answered by one of its callbacks (the *)
(* transport wrapper's own timeout answers for a silent transfer).          *)
Fairness ==
  /\ SF_vars(KickStartTasks)
  /\ WF_vars(FlushEnd)
  /\ WF_vars(\E ex \in execs : ProbeFound(ex) \/ ProbeMissing(ex))
  /\ WF_vars(\E ex \in execs : CreateOk(ex) \/ CreateFail(ex))
  /\ WF_vars(\E ex \in execs :
               \/ DownloadSuccess(ex)
               \/ DownloadTimeout(ex)
               \/ \E err \in TransferErrors \cup {AbortError} : DownloadFail(ex, err))
  /\ WF_vars(\E ex \in execs : LookupFound(ex) \/ LookupMissing(ex))
  /\ WF_vars(\E ex \in execs : FileRemoved(ex))

(* The client of the first run with bundles of one file each, under the    *)
(* platform's scheduling.                                                  *)
FairInputs == {b \in PlainInputs : Len(b.files.v) = 1}

NextFair ==
  \/ InitStepsQueue
  \/ \E bundle \in FairInputs : AddBundle(bundle)
  \/ \E bundleName \in Names : RemoveBundle(bundleName)
  \/ FlushEnd
  \/ TaskSteps

SpecFair == InitQueue /\ [][NextFair]_vars /\ Fairness

(* A client of the first run that adds and removes one bundle, of one file *)
(* or two, with a transport that may fall silent or answer late: the       *)
(* wrapper's timer fires for every transfer that is not answered.          *)
FairnessTransport ==
  /\ SF_vars(KickStartTasks)
  /\ WF_vars(FlushEnd)
  /\ WF_vars(\E ex \in execs : ProbeFound(ex) \/ ProbeMissing(ex))
  /\ WF_vars(\E ex \in execs : CreateOk(ex) \/ CreateFail(ex))
  /\ WF_vars(\E ex \in execs : DownloadTimeout(ex))
  /\ WF_vars(\E ex \in execs : LookupFound(ex) \/ LookupMissing(ex))
  /\ WF_vars(\E ex \in execs : FileRemoved(ex))

TransportInputs == {b \in PlainInputs : b.name.v = "A" /\ b.files.v # <<>>}

NextTransport ==
  \/ InitStepsQueue
  \/ \E bundle \in TransportInputs : AddBundle(bundle)
  \/ RemoveBundle("A")
  \/ FlushEnd
  \/ TaskSteps
  \/ \E ex \in execs : DownloadTimeoutEarly(ex)
  \/ \E w \in late, present \in BOOLEAN : LateCallback(w, present)

SpecTransport == InitQueue /\ [][NextTransport]_vars /\ FairnessTransport

-----------------------------------------------------------------------------
(* The properties. *)

Lists(bundle, fileName) ==
  \E findex \in 1..Len(bundle.files) : bundle.files[findex] = fileName

(* C1: a listener is invoked only by the deferred flush, and with the event *)
(* the flush has reached in the pending queue, which was queued before the  *)
(* step: no client call, timer or callback invokes a listener itself, and   *)
(* a call made by a listener during a delivery invokes none either.         *)
C1_DeliveryIsDeferred ==
  [][delivered' # <<>> =>
       /\ eventTimer
       /\ FlushAt # <<>>
       /\ delivered' = <<[listener |-> eventCallbacks[FlushAt[2] + 1],
                          event |-> eventQueue[FlushAt[1] + 1]]>>
       /\ eventQueue' = eventQueue]_vars

(* A call made during a flush has returned, leaving events behind the one  *)
(* delivered last, and no listener was invoked by it.                      *)
C1_Witness ==
  /\ Flushing
  /\ delivered = <<>>
  /\ Len(eventQueue) > flush[1] + 1

(* C2: once init is over, every file of a bundle marked loaded has a local *)
(* URL.                                                                    *)
C2_LoadedFilesHaveLocalURL ==
  phase = "ready" =>
    \A n \in DOMAIN bundles :
      bundles[n].loaded =>
        \A k \in 1..Len(bundles[n].files) :
          localURL(Cur, bundles[n].files[k]) # Undefined

(* C3: a Remove task looks a file up in the directory (the step that leads *)
(* to its deletion) only when no bundle then registered under another name *)
(* lists the file, and a local URL is dropped only for a file such a       *)
(* lookup is pending for: a file shared with a bundle that stays           *)
(* registered is neither deleted nor forgotten.                            *)
C3_SharedFileIsKept ==
  [][/\ \A ex \in execs' \ execs :
          (ex.type = TASK_TYPE_REMOVE /\ ex.pc = "lookup") =>
            \A n \in DOMAIN bundles' \ {ex.bundle.name} :
              ~Lists(bundles'[n], ex.bundle.files[ex.index + 1])
     /\ \A f \in DOMAIN localURLs \ DOMAIN localURLs' :
          \E ex \in execs :
            /\ ex.type = TASK_TYPE_REMOVE /\ ex.pc = "lookup"
            /\ ex.bundle.files[ex.index + 1] = f
     /\ \A l \in fs \ fs' :
          \E ex \in execs :
            /\ \/ ex.type = TASK_TYPE_REMOVE /\ ex.pc = "remove"
               \/ ex.type = TASK_TYPE_LOAD /\ ex.pc = "download"
            /\ LocalOf(ex) = l]_vars

(* The Remove task of A = (f, g) has passed f, which B lists, and looks g  *)
(* up: f is still in the directory, with its local URL.                    *)
C3_Witness ==
  /\ \E ex \in execs :
       /\ ex.type = TASK_TYPE_REMOVE /\ ex.pc = "lookup"
       /\ ex.bundle.name = "A" /\ ex.bundle.files = <<"f", "g">> /\ ex.index = 1
  /\ "B" \in DOMAIN bundles
  /\ "f" \in DOMAIN localURLs
  /\ _localFileName("f") \in fs

(* C4: when the DAM has nothing left to do (no task in the list, no body   *)
(* waiting for a callback), every file it holds a local URL for is listed  *)
(* by a registered bundle: the files of removed bundles are gone.          *)
C4_UnreferencedFilesAreDeleted ==
  (phase = "ready" /\ tasks = <<>> /\ execs = {}) =>
    \A f \in DOMAIN localURLs : \E n \in DOMAIN bundles : Lists(bundles[n], f)

(* C5: every bundle event a listener receives carries the name of a bundle *)
(* that is registered when it is delivered: none is delivered between      *)
(* removeBundle(name) and the next addBundle of that name.                 *)
C5_NoEventAfterRemove ==
  \A k \in 1..Len(delivered) :
    delivered[k].event.name # NoName => delivered[k].event.name \in DOMAIN bundles

(* C6: the task list holds at most one non-canceled task of each bundle    *)
(* name and type, and a request for a task of a name and type that has     *)
(* one leaves the list as it is.                                           *)
C6_OneLiveTaskPerNameAndType ==
  /\ \A j, k \in 1..Len(tasks) :
       (/\ j # k
        /\ tasks[j].bundleName = tasks[k].bundleName
        /\ tasks[j].type = tasks[k].type
        /\ tasks[j].canceled = FALSE) => tasks[k].canceled
  /\ \A k \in 1..Len(tasks) :
       tasks[k].canceled = FALSE =>
         _maybeAddTask(Cur, tasks[k].bundleName, tasks[k].type, tasks[k].extra).tasks = tasks

(* A canceled task and a live one of the same bundle in the list.          *)
C6_Witness ==
  /\ Len(tasks) = 2
  /\ tasks[1].bundleName = tasks[2].bundleName
  /\ tasks[1].canceled
  /\ tasks[2].canceled = FALSE

(* C7: at most one task body is waiting for its callback.                  *)
C7_OneTaskExecutes == Cardinality(execs) <= 1

(* A Load body waits for a callback while a Remove task that could run     *)
(* waits in the list behind it.                                            *)
C7_Witness ==
  /\ \E ex \in execs : ex.type = TASK_TYPE_LOAD
  /\ \E k \in 1..Len(tasks) :
       /\ tasks[k].type = TASK_TYPE_REMOVE
       /\ tasks[k].canceled = FALSE
       /\ tasks[k].failed = FALSE

(* C8: addBundle of a malformed bundle throws, and the registry, the       *)
(* persisted registry, the task list and the event queue stay as they were. *)
C8_MalformedBundleRejected ==
  [][\A b \in MalformedInputs :
       AddBundle(b) =>
         /\ result'.threw # Ok.threw
         /\ UNCHANGED <<bundles, stored, tasks, eventQueue>>]_vars

(* addBundle has thrown while a task and an event were pending.            *)
C8_Witness ==
  /\ result # Ok
  /\ tasks # <<>>
  /\ eventQueue # <<>>

(* C9: right after addBundle of a well-formed bundle that was not          *)
(* registered, getBundle gives a record of the same name, files and        *)
(* fileSizes whose loaded field is false.                                  *)
C9_GetAfterAdd ==
  [][\A b \in WellFormedInputs :
       (b.name.v \notin DOMAIN bundles /\ AddBundle(b)) =>
         LET r == getBundle([bundles |-> bundles'], b.name.v)
         IN /\ r # Undefined
            /\ r.name = Untag(b).name
            /\ r.files = Untag(b).files
            /\ HasSizes(r) = HasSizes(Untag(b))
            /\ HasSizes(r) => r.fileSizes = Untag(b).fileSizes
            /\ "loaded" \in DOMAIN r
            /\ r.loaded = FALSE]_vars

NamesRegistered(b) ==
  b.t = "object" /\ b.name.t = "string" /\ b.name.v \in DOMAIN bundles

NoOp == UNCHANGED <<bundles, stored, fs, localURLs, tasks, doingTasks, execs, eventQueue,
                    eventTimer>>

(* C10, as stated: addBundle of a bundle that carries a registered name    *)
(* returns without an error and changes nothing, whatever the bundle holds. *)
C10_SilentNoOp ==
  [][\A b \in BundleInputs :
       (NamesRegistered(b) /\ AddBundle(b)) => (result' = Ok /\ NoOp)]_vars

(* C10, amended: addBundle of a bundle that carries a registered name      *)
(* changes nothing; it returns silently when the bundle is well formed and *)
(* throws the malformed-bundle error when it is not.                       *)
C10_NoOpOrThrow ==
  [][\A b \in BundleInputs :
       (NamesRegistered(b) /\ AddBundle(b)) =>
         /\ NoOp
         /\ result' = IF b \in MalformedInputs
                        THEN Threw("Malformed bundle passed to addBundle", b)
                        ELSE Ok]_vars

(* addBundle has thrown for a bundle that carries a registered name.       *)
C10_Witness ==
  /\ result # Ok
  /\ result.name \in DOMAIN bundles

(* The events of the queue q that carry the bundle name.                    *)
EventsOf(q, name) == SelectSeq(q, LAMBDA e : e.name = name)

(* The task of the list whose body ex runs.                                 *)
TaskOf(list, ex) == list[CHOOSE k \in 1..Len(list) : list[k].id = ex.task]

(* The body ex of a Load task stands where doIt leaves it: at the probe of  *)
(* its first file, or at the read of a bundle that is not registered.       *)
AtStart(ex) ==
  /\ ex.type = TASK_TYPE_LOAD
  /\ \/ ex.pc = "probe" /\ ex.index = 0 /\ ex.totalDoneSize = 0
     \/ ex.pc = "TypeError"

(* C11: a Load task that is canceled while it waits in the list is never    *)
(* executed and produces no event: no turn leaves the body of a canceled    *)
(* Load task at its start, and while a bundle has no Load task other than   *)
(* canceled ones that wait, no turn adds an event of that bundle to the     *)
(* queue unless the turn registers the bundle.                              *)
C11_CanceledPendingLoadNeverRuns ==
  [][/\ \A ex \in execs' \ execs : AtStart(ex) => ~TaskOf(tasks', ex).canceled
     /\ \A name \in Names :
          (/\ phase = "ready"
           /\ \A k \in 1..Len(tasks) :
                (tasks[k].bundleName = name /\ tasks[k].type = TASK_TYPE_LOAD)
                  => (tasks[k].canceled /\ \A ex \in execs : ex.task # tasks[k].id)
           /\ (name \in DOMAIN bundles \/ name \notin DOMAIN bundles'))
          => Len(EventsOf(eventQueue', name)) <= Len(EventsOf(eventQueue, name))]_vars

(* A canceled Load task waits in the list while another task executes.      *)
C11_Witness ==
  \E k \in 1..Len(tasks) :
    /\ tasks[k].type = TASK_TYPE_LOAD
    /\ tasks[k].canceled
    /\ tasks[k].failed = FALSE
    /\ execs # {}
    /\ \A ex \in execs : ex.task # tasks[k].id

(* The fraction p is at most the fraction q; NoDone lies below every one.   *)
FractionLE(p, q) ==
  \/ p = NoDone
  \/ q # NoDone /\ p[1] * q[2] <= q[1] * p[2]

(* C12: the progress fractions produced for a Load task never decrease over *)
(* the life of the task, failed attempts and retries included, and never    *)
(* exceed 1: whenever the body of a Load task goes on from one callback to  *)
(* the next, the last fraction produced for its task is at least the one    *)
(* produced before, and at most 1.                                          *)
C12_ProgressNeverDecreases ==
  [][\A ex \in execs, ex2 \in execs' :
       (/\ ex.type = TASK_TYPE_LOAD /\ ex2.type = TASK_TYPE_LOAD
        /\ ex2.task = ex.task
        /\ ~AtStart(ex2))
       => /\ FractionLE(TaskOf(tasks, ex).progress, TaskOf(tasks', ex2).progress)
          /\ FractionLE(TaskOf(tasks', ex2).progress, <<1, 1>>)]_vars

(* A Load task of the bundle is in the list, failed with retry set, and not *)
(* canceled.                                                                *)
AwaitsRetry(name) ==
  \E k \in 1..Len(tasks) :
    /\ tasks[k].bundleName = name /\ tasks[k].type = TASK_TYPE_LOAD
    /\ tasks[k].failed /\ tasks[k].retry /\ tasks[k].canceled = FALSE

(* A Load task of the bundle that is not canceled is in the list.           *)
HasLiveLoad(name) ==
  \E k \in 1..Len(tasks) :
    /\ tasks[k].bundleName = name /\ tasks[k].type = TASK_TYPE_LOAD
    /\ tasks[k].canceled = FALSE

(* The body of a Load task of the bundle that is not canceled executes.     *)
LoadRuns(name) ==
  \E ex \in execs :
    /\ ex.type = TASK_TYPE_LOAD
    /\ TaskOf(tasks, ex).bundleName = name
    /\ TaskOf(tasks, ex).canceled = FALSE

(* C13: a Load task that failed with retry set stays in the list as long as *)
(* its bundle stays registered, no task executes while its failed flag is   *)
(* set, and the task is executed again, or canceled, in the end.            *)
C13_FailedTaskIsRetried ==
  /\ [][\A name \in Names :
          (AwaitsRetry(name) /\ name \in DOMAIN bundles') => HasLiveLoad(name)']_vars
  /\ [](\A ex \in execs : TaskOf(tasks, ex).failed = FALSE)
  /\ \A name \in Names :
       AwaitsRetry(name) ~> (LoadRuns(name) \/ ~HasLiveLoad(name))

(* A failed Load task waits for the retry timer while another task executes. *)
C13_Witness ==
  \E name \in Names : AwaitsRetry(name) /\ execs # {}

(* The global events of the queue q.                                        *)
Globals(q) == SelectSeq(q, LAMBDA e : e.name = NoName)

(* The global events n alternate, from busy when the flag busy is not set   *)
(* and from notbusy when it is.                                             *)
Alternates(n, busy) ==
  \A i \in 1..Len(n) :
    n[i] = IF (i % 2 = 1) = busy THEN GLOBAL_EVENT_NOTBUSY ELSE GLOBAL_EVENT_BUSY

(* C14: the global events produced alternate busy, notbusy, busy, ... from  *)
(* busy, one for every change of doingTasks and none without a change, and  *)
(* doingTasks is set exactly while a task body executes: the global events  *)
(* a turn adds to the queue alternate from the opposite of doingTasks, the  *)
(* flag ends set exactly when their number is odd, and the flush changes    *)
(* neither.                                                                 *)
C14_BusyAlternates ==
  [][/\ doingTasks' <=> execs' # {}
     /\ IF eventTimer /\ ~eventTimer'
          THEN doingTasks' = doingTasks
          ELSE LET g == Globals(eventQueue)
                   g2 == Globals(eventQueue')
                   n == SubSeq(g2, Len(g) + 1, Len(g2))
               IN /\ Len(g) <= Len(g2)
                  /\ SubSeq(g2, 1, Len(g)) = g
                  /\ Alternates(n, doingTasks)
                  /\ doingTasks' = (doingTasks # (Len(n) % 2 = 1))]_vars

(* A task body has ended and the next one executes in the same busy period: *)
(* an event of the one and the loading event of the other are in the queue  *)
(* with no global event.                                                    *)
C14_Witness ==
  /\ doingTasks
  /\ Globals(eventQueue) = <<>>
  /\ \E i, j \in 1..Len(eventQueue) :
       /\ i < j
       /\ eventQueue[i].name # eventQueue[j].name
       /\ eventQueue[j].event = "loading"

(* A download ends with a failure that is retried: the wrapper's timeout,   *)
(* or a transport error without an HTTP status or with status 200.          *)
TransientFailure ==
  \E ex \in execs :
    \/ DownloadTimeout(ex)
    \/ \E err \in {e \in TransferErrors : e.http_status = NoStatus \/ e.http_status = 200} :
         DownloadFail(ex, err)

(* The event is in the queue.                                               *)
Produced(event) == \E i \in 1..Len(eventQueue) : eventQueue[i] = event

(* C15: when the retried failures stop in the end, a bundle that has been   *)
(* added and has its Load task in the list is in the end loaded, with its   *)
(* loaded event produced, or has its error event produced, unless it is     *)
(* removed.                                                                 *)
C15_AddedBundleSettles ==
  \/ []<><<TransientFailure>>_vars
  \/ \A name \in Names :
       HasLiveLoad(name) ~>
         \/ name \notin DOMAIN bundles
         \/ bundles[name].loaded /\ Produced(BUNDLE_EVENT_LOADED(name))
         \/ Produced(BUNDLE_EVENT_ERROR(name))

(* A download of the bundle has failed for good: the error event is in the  *)
(* queue and the bundle stays registered, not loaded.                       *)
C15_Witness ==
  \E name \in DOMAIN bundles :
    /\ Produced(BUNDLE_EVENT_ERROR(name))
    /\ ~bundles[name].loaded
    /\ ~HasLiveLoad(name)

(* C16: when init completes with success, every bundle of the restored      *)
(* registry whose files are all in the directory is loaded and has its      *)
(* loaded event produced, and every other one is not loaded and has a Load  *)
(* task that is not canceled in the list.                                   *)
C16_InitSettlesLoaded ==
  [][(phase # "ready" /\ phase' = "ready") =>
       \A name \in DOMAIN bundles' :
         IF AllPresent(bundles'[name], fs')
           THEN /\ bundles'[name].loaded
                /\ Produced(BUNDLE_EVENT_LOADED(name))'
           ELSE /\ ~bundles'[name].loaded
                /\ HasLiveLoad(name)']_vars

(* init has completed over a registry with a bundle whose files are all     *)
(* there and one with a file missing, whose Load task waits behind none.    *)
C16_Witness ==
  /\ phase = "ready"
  /\ \E name \in DOMAIN bundles :
       /\ bundles[name].loaded
       /\ Len(bundles[name].files) > 0
       /\ Produced(BUNDLE_EVENT_LOADED(name))
  /\ \E name \in DOMAIN bundles :
       /\ ~bundles[name].loaded
       /\ HasLiveLoad(name)
       /\ Produced(BUNDLE_EVENT_LOADING(name))

(* The events of the queue that the flush has not yet passed to the l-th    *)
(* listener: all of them before the flush; during it, with the loops at     *)
(* event flush[1] and listener flush[2] (both from 0), those after the      *)
(* event in hand and, for a listener the inner loop has not reached, the    *)
(* event in hand.                                                           *)
Undelivered(l) ==
  IF Flushing
    THEN SubSeq(eventQueue, IF l <= flush[2] THEN flush[1] + 2 ELSE flush[1] + 1,
                Len(eventQueue))
    ELSE eventQueue

(* The names of the bundles that the step registers or unregisters.         *)
Touched == {name \in Names : (name \in DOMAIN bundles) # (name \in DOMAIN bundles')}

(* The events of q that a purge for the bundles touched leaves.             *)
Kept(q) == SelectSeq(q, LAMBDA e : e.name \notin Touched)

IsPrefix(p, q) == Len(p) <= Len(q) /\ SubSeq(q, 1, Len(p)) = p

FailsWith(ex, err) ==
  /\ TaskOf(tasks, ex).canceled = FALSE
  /\ DownloadFail(ex, err)

FailsForGood(ex) ==
  \/ CreateFail(ex)
  \/ \E err \in {e \in TransferErrors : e.http_status # NoStatus /\ e.http_status # 200} :
       DownloadFail(ex, err)

(* How many error events of the bundle the queue q holds.                   *)
Errors(q, name) == Len(SelectSeq(q, LAMBDA e : e = BUNDLE_EVENT_ERROR(name)))

(* C19: the error event of a bundle is produced exactly when a Load task of *)
(* the bundle that is not canceled fails with retry not set; the task then  *)
(* leaves the list, so that the retry timer does not execute it again, and  *)
(* the bundle stays registered and not loaded.  A failure that is retried   *)
(* and a canceled or aborted transfer produce no error event.               *)
C19_ErrorEventIffFinalFailure ==
  [][/\ \A name \in Names :
          Errors(eventQueue', name) > Errors(eventQueue, name) =>
            \E ex \in execs :
              /\ ex.bundle.name = name
              /\ TaskOf(tasks, ex).canceled = FALSE
              /\ FailsForGood(ex)
     /\ \A ex \in execs :
          (TaskOf(tasks, ex).canceled = FALSE /\ FailsForGood(ex)) =>
            /\ Errors(eventQueue', ex.bundle.name) = Errors(eventQueue, ex.bundle.name) + 1
            /\ ~HasLiveLoad(ex.bundle.name)'
            /\ ex.bundle.name \in DOMAIN bundles'
            /\ ~bundles'[ex.bundle.name].loaded]_vars

(* The placeholder file of a download could not be created: the error event *)
(* of the bundle follows its loading event in the queue, and the bundle is  *)
(* registered with no Load task.                                            *)
C19_Witness ==
  \E name \in DOMAIN bundles :
    /\ ~HasLiveLoad(name)
    /\ \E i, j \in 1..Len(eventQueue) :
         /\ i < j
         /\ eventQueue[i] = BUNDLE_EVENT_LOADING(name)
         /\ eventQueue[j] = BUNDLE_EVENT_ERROR(name)

(* What cancelling the tasks of the bundle and type does to the heap: the   *)
(* list keeps its tasks in their order, the matching ones marked canceled,  *)
(* a transfer in flight for one of them is aborted, the events of the       *)
(* bundle leave the queue when a task matches, and nothing else changes.    *)
CancelOnlyMarks(bundleName, type) ==
  LET s == Cur
      t == _cancelTask(Cur, bundleName, type)
      match(k) == s.tasks[k].bundleName = bundleName /\ s.tasks[k].type = type
  IN /\ Len(t.tasks) = Len(s.tasks)
     /\ \A k \in 1..Len(s.tasks) :
          t.tasks[k] = IF match(k) THEN [s.tasks[k] EXCEPT !.canceled = TRUE]
                                   ELSE s.tasks[k]
     /\ t.execs = {IF /\ e.pc = "download"
                      /\ \E k \in 1..Len(s.tasks) :
                           match(k) /\ s.tasks[k].id = e.task /\ s.tasks[k].ft
                     THEN [e EXCEPT !.aborted = TRUE] ELSE e : e \in s.execs}
     /\ t.eventQueue = IF \E k \in 1..Len(s.tasks) : match(k)
                         THEN SelectSeq(s.eventQueue, LAMBDA e : e.name # bundleName)
                         ELSE s.eventQueue
     /\ [t EXCEPT !.tasks = s.tasks, !.execs = s.execs, !.eventQueue = s.eventQueue] = s

(* What of a task stays the same all its life.                              *)
Key(task) == <<task.bundleName, task.type, task.extra>>

Keys(list) == [k \in 1..Len(list) |-> Key(list[k])]

(* The list without the positions of the set gone.                          *)
RECURSIVE Without(_, _, _)
Without(list, gone, k) ==
  IF k > Len(list) THEN <<>>
  ELSE IF k \in gone THEN Without(list, gone, k + 1)
  ELSE <<list[k]>> \o Without(list, gone, k + 1)

(* The body of the task, once started, runs to its end without a callback:  *)
(* a Load of a bundle without files, a Remove whose files are all listed by *)
(* other bundles of the registry.                                           *)
EndsAtOnce(task, registry) ==
  IF task.type = TASK_TYPE_LOAD
    THEN /\ task.bundleName \in DOMAIN registry
         /\ registry[task.bundleName].files = <<>>
    ELSE \A findex \in 1..Len(task.extra.files) :
           \E bName \in DOMAIN registry :
             /\ bName # task.bundleName
             /\ Lists(registry[bName], task.extra.files[findex])

(* C20: cancelling changes neither the membership nor the order of the task *)
(* list, it only marks the matching tasks canceled (aborting a transfer in  *)
(* flight and purging the events of the bundle); and a step takes tasks out *)
(* of the list only when the drain loop runs (a client call made while the  *)
(* loop waits for a callback takes none out), the tasks taken out being     *)
(* canceled ones, the one that was executing and those the loop executes to *)
(* their end in the step, the others keeping their order before the task   *)
(* the step adds.                                                           *)
C20_CancelKeepsTheList ==
  /\ [](\A bundleName \in Names, type \in {TASK_TYPE_LOAD, TASK_TYPE_REMOVE} :
          CancelOnlyMarks(bundleName, type))
  /\ [][\E gone \in SUBSET (1..Len(tasks)) :
          /\ IsPrefix(Keys(Without(tasks, gone, 1)), Keys(tasks'))
          /\ \A k \in gone :
               \/ \E ex \in execs : ex.task = tasks[k].id
               \/ tasks[k].canceled
               \/ tasks[k].bundleName \in Touched
               \/ EndsAtOnce(tasks[k], bundles')]_vars
  /\ [][(doingTasks /\ ~IsPrefix(Keys(tasks), Keys(tasks')))
          => ~ \/ \E bundle \in PlainInputs \cup APIInputs : AddBundle(bundle)
               \/ \E bundleName \in Names : RemoveBundle(bundleName)]_vars

(* A canceled task stands in the list before one that is not canceled, and  *)
(* the events of its bundle are gone from the queue.                        *)
C20_Witness ==
  \E k, j \in 1..Len(tasks) :
    /\ k < j
    /\ tasks[k].canceled
    /\ ~tasks[j].canceled
    /\ EventsOf(eventQueue, tasks[k].bundleName) = <<>>
    /\ eventQueue # <<>>

(* C21: once init is over, a registered bundle has no Remove task in the    *)
(* list other than canceled ones, and a bundle that is not registered has   *)
(* no Load task other than canceled ones; a Load task the loop starts reads *)
(* its bundle from the registry, and a Remove task it starts works on the   *)
(* record removeBundle took out of the registry, under the task's name.     *)
C21_LiveTasksMatchRegistry ==
  /\ [](\A k \in 1..Len(tasks) :
          tasks[k].canceled = FALSE =>
            IF tasks[k].type = TASK_TYPE_LOAD
              THEN tasks[k].bundleName \in DOMAIN bundles
              ELSE tasks[k].bundleName \notin DOMAIN bundles)
  /\ [](\A ex \in execs :
          /\ ex.pc # "TypeError"
          /\ ex.bundle # EmptyObject
          /\ ex.bundle.name = TaskOf(tasks, ex).bundleName
          /\ ex.type = TASK_TYPE_REMOVE =>
               /\ ex.bundle = TaskOf(tasks, ex).extra
               /\ "loaded" \in DOMAIN ex.bundle)
  /\ [][\A ex \in execs' \ execs :
          (AtStart(ex) /\ ex.pc = "probe") =>
            /\ ex.bundle.name \in DOMAIN bundles'
            /\ ex.bundle = _copyBundle(bundles'[ex.bundle.name])]_vars

(* A bundle is registered again while its Remove task, canceled, is still   *)
(* in the list ahead of the new Load task.                                  *)
C21_Witness ==
  \E k, j \in 1..Len(tasks) :
    /\ k < j
    /\ tasks[k].type = TASK_TYPE_REMOVE /\ tasks[k].canceled
    /\ tasks[j].type = TASK_TYPE_LOAD /\ tasks[j].canceled = FALSE
    /\ tasks[k].bundleName = tasks[j].bundleName
    /\ tasks[j].bundleName \in DOMAIN bundles

(* C22: a Remove task that is canceled while the lookup of its current file *)
(* is pending deletes no file and drops no local URL afterwards: the turn   *)
(* of the lookup's callback leaves the local URLs as they are and asks for  *)
(* no removal.                                                              *)
C22_CanceledRemoveDeletesNothing ==
  [][\A ex \in execs :
       (/\ ex.type = TASK_TYPE_REMOVE
        /\ ex.pc = "lookup"
        /\ TaskOf(tasks, ex).canceled
        /\ LookupFound(ex) \/ LookupMissing(ex))
       => /\ localURLs' = localURLs
          /\ fs' = fs
          /\ \A e \in execs' : e.pc # "remove"]_vars

(* C23: a remote file has a local URL only while its local file is in the   *)
(* directory, the URL being that of the local file; a turn adds an entry    *)
(* only on a download that succeeded or on a probe of init that found the   *)
(* file, and a file that leaves the directory has no entry afterwards.      *)
C23_LocalURLOnlyOfPresentFile ==
  /\ [](\A f \in DOMAIN localURLs :
          /\ _localFileName(f) \in fs
          /\ localURLs[f] = toURL(_localFileName(f)))
  /\ [][\A f \in DOMAIN localURLs' \ DOMAIN localURLs :
          \/ InitProbeFound /\ f = InitFile
          \/ \E ex \in execs : DownloadSuccess(ex) /\ f = ex.bundle.files[ex.index + 1]]_vars
  /\ [][\A f \in Files :
          (_localFileName(f) \in fs /\ _localFileName(f) \notin fs')
            => f \notin DOMAIN localURLs']_vars

(* A Remove task has dropped the local URL of the file whose removal it     *)
(* waits for, while another file keeps its local URL.                       *)
C23_Witness ==
  /\ DOMAIN localURLs # {}
  /\ \E ex \in execs :
       /\ ex.pc = "remove"
       /\ ex.bundle.files[ex.index + 1] \notin DOMAIN localURLs

(* The number of loaded events of the bundle in the queue q.                *)
LoadedEvents(q, name) == Len(SelectSeq(q, LAMBDA e : e = BUNDLE_EVENT_LOADED(name)))

(* C24: once init is over, the registry read back from the store is the     *)
(* registry in memory (names, files, fileSizes, loaded flags) at the end of *)
(* every turn, and a turn that produces the loaded event of a bundle leaves *)
(* the bundle stored with loaded set.                                       *)
C24_StoreMirrorsRegistry ==
  /\ [](phase = "ready" => (stored # Null /\ JSONparse(stored) = bundles))
  /\ [][\A name \in Names :
          (phase' = "ready" /\ LoadedEvents(eventQueue', name) > LoadedEvents(eventQueue, name))
            => /\ stored' # Null
               /\ name \in DOMAIN JSONparse(stored')
               /\ JSONparse(stored')[name].loaded]_vars

(* A Load task has run to its end: the loading and loaded events of the     *)
(* bundle are in the queue and the store has the bundle as loaded.          *)
C24_Witness ==
  /\ phase = "ready"
  /\ \E name \in DOMAIN bundles :
       /\ Produced(BUNDLE_EVENT_LOADING(name))
       /\ Produced(BUNDLE_EVENT_LOADED(name))
       /\ bundles[name].loaded
       /\ stored # Null
       /\ JSONparse(stored)[name].loaded

(* The step has started the body ex: it is new after the step and stands   *)
(* where doIt leaves a body, a Load at the probe of its first file (a body  *)
(* that continues is past it), a Remove at a lookup that no body of the     *)
(* task had got to before.                                                  *)
Begins(ex) ==
  /\ ex \in execs' \ execs
  /\ IF ex.type = TASK_TYPE_LOAD
       THEN AtStart(ex)
       ELSE /\ ex.pc = "lookup"
            /\ \A e \in execs :
                 ~(e.type = ex.type /\ e.task = ex.task /\ e.bundle = ex.bundle
                   /\ e.index < ex.index)

(* A task of the bundle and type that is neither failed nor canceled stands *)
(* in the list behind a task that failed with retry set.                    *)
BehindFailed(name, type) ==
  \E j, k \in 1..Len(tasks) :
    /\ j < k
    /\ tasks[j].failed /\ tasks[j].retry /\ tasks[j].canceled = FALSE
    /\ tasks[k].bundleName = name /\ tasks[k].type = type
    /\ tasks[k].failed = FALSE /\ tasks[k].canceled = FALSE

(* The body of a task of the bundle and type that is not canceled executes. *)
Executes(name, type) ==
  \E ex \in execs :
    /\ ex.type = type
    /\ TaskOf(tasks, ex).bundleName = name
    /\ TaskOf(tasks, ex).canceled = FALSE

C26_TransferCallsBackOnce ==
  /\ [](\A w \in late : w.timed_out /\ w.calls = 1)
  /\ [][\A w \in late, present \in BOOLEAN :
          LateCallback(w, present) =>
            /\ w \notin late'
            /\ UNCHANGED <<bundles, stored, localURLs, tasks, doingTasks, execs,
                           eventQueue, eventTimer>>]_vars
  /\ [](Cardinality(execs) <= 1)
  /\ (\E ex \in execs : ex.pc = "download") ~> (\A ex \in execs : ex.pc # "download")
  /\ \A name \in Names :
       Executes(name, TASK_TYPE_LOAD) ~> ~Executes(name, TASK_TYPE_LOAD)

(* The wrapper of a transfer has timed out and the task was failed with     *)
(* retry, the transport still has the transfer, and the task is executed    *)
(* again meanwhile.                                                         *)
C26_Witness ==
  \E w \in late, ex \in execs :
    /\ w.calls = 1
    /\ ex.pc = "download"
    /\ ex.bundle.name = w.name

(* The event waits in the queue for the l-th listener.                      *)
Waits(l, event) == \E i \in 1..Len(Undelivered(l)) : Undelivered(l)[i] = event

(* C27: the flush timer is set whenever an event is in the queue, it is set *)
(* by a step only when it was not set, a flush runs only while it is set,   *)
(* and the one flush passes every listener every event produced before it   *)
(* ends: an event that waits for a listener still waits after a step, or    *)
(* the step has passed it to the listener, or purged it with its bundle.    *)
C27_OneFlushDeliversAll ==
  /\ [](eventQueue # <<>> => eventTimer)
  /\ [](Flushing => eventTimer)
  /\ [][(eventTimer' /\ Len(eventQueue') > Len(eventQueue)) =>
          (eventTimer \/ eventQueue = <<>>)]_vars
  /\ [][\A l \in 1..Len(eventCallbacks) :
          \A event \in {eventQueue[k] : k \in 1..Len(eventQueue)} :
            (Waits(l, event) /\ event.name \notin Touched) =>
              \/ Waits(l, event)'
              \/ delivered' = <<[listener |-> eventCallbacks[l], event |-> event]>>]_vars

(* C28: a Load task that has been canceled does nothing more but complete:  *)
(* the callback of a probe that was pending asks for no placeholder file,   *)
(* the callback of a file creation starts no transfer, and a transfer of    *)
(* the task that is with the transport has been aborted.                    *)
C28_CanceledLoadOnlyCompletes ==
  /\ [][\A ex \in execs :
          (/\ ex.type = TASK_TYPE_LOAD /\ TaskOf(tasks, ex).canceled
           /\ ProbeFound(ex) \/ ProbeMissing(ex))
            => \A e \in execs' : e.pc # "create"]_vars
  /\ [][\A ex \in execs :
          (/\ ex.type = TASK_TYPE_LOAD /\ TaskOf(tasks, ex).canceled
           /\ CreateOk(ex) \/ CreateFail(ex))
            => /\ \A e \in execs' : e.pc # "download"
               /\ \A k \in 1..Len(tasks') : tasks'[k].ft = FALSE]_vars
  /\ [](\A ex \in execs :
          (ex.type = TASK_TYPE_LOAD /\ TaskOf(tasks, ex).canceled /\ ex.pc = "download")
            => ex.aborted)

====
